---- MODULE Spec2Model ----
(***************************************************************************)
(* A model of two parts of aw_nas:                                         *)
(*   - DPUCompiler (aw_nas/hardware/compiler/dpu.py): the constructor and  *)
(*     the compile pipeline pytorch_to_caffe -> deephi_fix -> dnnc;        *)
(*   - CosineDecayLR and LatencyObjective of the bbssp plugin              *)
(*     (examples/research/bbssp/ssp_plugin/ssp_plugin.py).                 *)
(* Three specifications share the module: SpecCompile, SpecLR, SpecLat.    *)
(* Each one moves its own variables and leaves the others at their         *)
(* initial values.                                                         *)
(***************************************************************************)
EXTENDS Integers, Sequences, FiniteSets, TLC

VARIABLES
    \* ---- DPUCompiler ----
    args,        \* the constructor's arguments (with the log level of the process)
    self,        \* the object's attributes: a function from stored names to values
    pc,          \* position of the caller: in the constructor, inside compile, ...
    exc,         \* the exception that propagated out, "none" when there is none
    cargs,       \* compile's arguments (compile_name, net_cfg, result_dir)
    model,       \* compile's local model
    proto,       \* compile's local proto
    caffemodel,  \* compile's local caffemodel
    calls,       \* the external steps invoked so far, in order, with their exit status
    \* ---- CosineDecayLR ----
    lr,          \* the scheduler's attributes and the value get_lr returned last
    \* ---- LatencyObjective ----
    obj,         \* the objective's attributes (latency_lut, lamb, _min_lat, _max_lat)
    result       \* what the last get_perfs / get_reward call returned or raised

dpuVars == <<args, self, pc, exc, cargs, model, proto, caffemodel, calls>>
vars == <<args, self, pc, exc, cargs, model, proto, caffemodel, calls, lr, obj, result>>

(***************************************************************************)
(* Python values.  None is the empty tuple and any other value v of an     *)
(* optional argument is <<v>>.                                             *)
(***************************************************************************)
None == <<>>
Some(v) == <<v>>

\* "{}".format(n) of a device number: the decimal digits of n, for n < 10.
IntStr(n) ==
    CASE n = 0 -> "0" [] n = 1 -> "1" [] n = 2 -> "2" [] n = 3 -> "3"
      [] n = 4 -> "4" [] n = 5 -> "5" [] n = 6 -> "6" [] n = 7 -> "7"
      [] n = 8 -> "8" [] n = 9 -> "9"
      [] OTHER -> "many"

\* A python object handed around as a positional argument: its type and its str().
PyStr(s) == [type |-> "str", repr |-> s]
PyModel(net_cfg, device) ==
    [type |-> "final_model", repr |-> "final_model(" \o net_cfg \o ")@" \o device]

\* "{}".format(v)
Format(v) == v.repr

\* os.path.join(a, b)
PathJoin(a, b) == a \o "/" \o b

(***************************************************************************)
(* Bounds and input sets of the DPUCompiler model.                         *)
(***************************************************************************)
MaxGpu == 1
MaxCalibIter == 1
MaxRc == 1

DcfArgs == {None, Some("dpu.dcf")}
ModeArgs == {"debug", "normal"}
InputSizeArgs == {None, Some(32), Some(224)}
CompileNames == {"netA", "netB"}
NetCfgs == {"cfg1", "cfg2"}
ResultDirs == {"out"}

CtorArgs ==
    [dcf : DcfArgs, mode : ModeArgs, calib_iter : 0..MaxCalibIter,
     gpu : 0..MaxGpu, input_size : InputSizeArgs, log_debug : BOOLEAN]

(***************************************************************************)
(* DPUCompiler.__init__: the two expect() checks, then the stores.         *)
(* The result is the attribute dictionary and the exception raised.        *)
(***************************************************************************)
NoFields == [n \in {} |-> None]

DPUCompilerInit_ChecksSwapped(a) ==
    IF a.input_size = None
    THEN [fields |-> NoFields, exc |-> "ConfigException: must specificy input_size"]
    ELSE IF a.dcf = None
    THEN [fields |-> NoFields, exc |-> "ConfigException: must specificy dcf file"]
    ELSE [fields |-> [dcf |-> a.dcf[1], mode |-> a.mode, calib_iter |-> a.calib_iter,
                      debug_output |-> a.log_debug, gpu |-> a.gpu,
                      input_size |-> a.input_size[1]],
          exc |-> "none"]

DPUCompilerInit(a) ==
    IF a.dcf = None
    THEN [fields |-> NoFields, exc |-> "ConfigException: must specificy dcf file"]
    ELSE IF a.input_size = None
    THEN [fields |-> NoFields, exc |-> "ConfigException: must specificy input_size"]
    ELSE [fields |-> [dcf |-> a.dcf[1], mode |-> a.mode, calib_iter |-> a.calib_iter,
                      debug_output |-> a.log_debug, gpu |-> a.gpu,
                      input_size |-> a.input_size[1]],
          exc |-> "none"]

(***************************************************************************)
(* The helpers of the pipeline, as functions of their parameters.          *)
(***************************************************************************)
\* _run_pytorch_to_caffe(self, model, name, output_dir, input_size, debug):
\* the arguments of trans_net and the two paths saved and returned.
RunPytorchToCaffe(p_model, p_name, output_dir, input_size, debug) ==
    [argv |-> [model |-> p_model, name |-> p_name, input_size |-> input_size,
               quiet |-> ~debug],
     out_proto |-> output_dir \o "/" \o Format(p_name) \o ".prototxt",
     out_caffemodel |-> output_dir \o "/" \o Format(p_name) \o ".caffemodel"]

\* _caffe_fix: the prototxt that sed writes and deephi_fix reads.
InputPrototxt(prototxt) == prototxt \o ".tofix.prototxt"

\* _caffe_fix: the pair it returns.
CaffeFixReturn_Unmodified(output_dir) ==
    [proto |-> PathJoin(output_dir, "deploy.prototxt"),
     caffemodel |-> PathJoin(output_dir, "deploy.caffemodel")]

CaffeFixReturn(output_dir) ==
    [proto |-> PathJoin(output_dir, "deploy_dnnc.prototxt"),
     caffemodel |-> PathJoin(output_dir, "deploy.caffemodel")]

\* _run_dnnc: the command line's arguments and the elf it names.
RunDnnc(name, prototxt, caffemodel_, output_dir, dcf, mode, debug) ==
    [argv |-> [mode |-> mode, prototxt |-> prototxt, caffemodel |-> caffemodel_,
               output_dir |-> output_dir, dcf |-> dcf, net_name |-> Format(name),
               dump_all |-> debug],
     output_elf |-> PathJoin(output_dir, "dpu_" \o Format(name) \o ".elf")]

\* subprocess.check_call: a non-zero exit status raises CalledProcessError.
CheckCall_IgnoreStatus(rc) == "ok"

CheckCall(rc) == IF rc = 0 THEN "ok" ELSE "CalledProcessError"

\* compile's directories
PtcOutDir(result_dir) == PathJoin(result_dir, "pytorch_to_caffe")
FixOutDir(result_dir) == PathJoin(result_dir, "fix")
DnncOutDir(result_dir, mode) == PathJoin(result_dir, "dnnc_" \o mode)

\* compile, lines 154-156: the call of _run_pytorch_to_caffe, whose positional
\* parameters are (model, name, output_dir).
CompileCallPtc(compile_name, model_, ptc_out_dir, input_size, debug) ==
    RunPytorchToCaffe(compile_name, model_, ptc_out_dir, input_size, debug)

\* compile, lines 166-168: the call of _run_dnnc.
CompileCallDnnc(compile_name, proto_, caffemodel_, dnnc_out_dir, dcf, mode, debug) ==
    RunDnnc(compile_name, proto_, caffemodel_, dnnc_out_dir, dcf, mode, debug)

(***************************************************************************)
(* The state of the other two components while one is being checked.       *)
(***************************************************************************)
LRIdle == [phase |-> "idle"]
ObjIdle == [phase |-> "idle"]
ResultIdle == [kind |-> "idle"]

(***************************************************************************)
(* DPUCompiler: construction, then one call of compile, one external step  *)
(* at a time.  Every external step may fail.                               *)
(***************************************************************************)
InitCompile ==
    /\ args \in CtorArgs
    /\ self = NoFields
    /\ pc = "new"
    /\ exc = "none"
    /\ cargs = None
    /\ model = None
    /\ proto = None
    /\ caffemodel = None
    /\ calls = <<>>
    /\ lr = LRIdle
    /\ obj = ObjIdle
    /\ result = ResultIdle

\* One invoked step: the tool, how it ended, its exit status, its arguments and,
\* when the step ends the helper that runs it, the paths that helper returns.
Entry(tool, outcome, rc, argv, ret) ==
    [tool |-> tool, outcome |-> outcome, rc |-> rc, argv |-> argv, ret |-> ret]

\* An exception leaves compile: nothing catches it (lines 145-168).
Raise(e) ==
    /\ pc' = "raised"
    /\ exc' = e

\* DPUCompiler(dcf, mode, calib_iter, gpu, input_size)
Construct ==
    /\ pc = "new"
    /\ LET r == DPUCompilerInit(args) IN
        /\ self' = r.fields
        /\ exc' = r.exc
        /\ pc' = IF r.exc = "none" THEN "ready" ELSE "ctor_raised"
    /\ UNCHANGED <<args, cargs, model, proto, caffemodel, calls>>
    /\ UNCHANGED <<lr, obj, result>>

\* compile(compile_name, net_cfg, result_dir), lines 147-149: the two
\* _init_component calls build the search space and the final model.
CompileBegin(compile_name, net_cfg, result_dir, built) ==
    /\ pc = "ready"
    /\ cargs' = Some([compile_name |-> compile_name, net_cfg |-> net_cfg,
                      result_dir |-> result_dir])
    /\ IF built
       THEN /\ model' = Some(PyModel(net_cfg, "cuda:" \o IntStr(self.gpu)))
            /\ pc' = "pytorch_to_caffe"
            /\ exc' = exc
       ELSE /\ model' = model
            /\ Raise("Exception: _init_component")
    /\ UNCHANGED <<args, self, proto, caffemodel, calls>>
    /\ UNCHANGED <<lr, obj, result>>

\* lines 152-156 and 61-79: trans_net, then the two files are saved.
PytorchToCaffe(converted) ==
    /\ pc = "pytorch_to_caffe"
    /\ LET c == cargs[1]
           r == CompileCallPtc(PyStr(c.compile_name), model[1],
                               PtcOutDir(c.result_dir), self.input_size,
                               self.debug_output)
       IN  /\ calls' = Append(calls,
                  Entry("trans_net", IF converted THEN "ok" ELSE "Exception", 0, r.argv,
                        IF converted THEN <<r.out_proto, r.out_caffemodel>> ELSE <<>>))
           /\ IF converted
              THEN /\ proto' = Some(r.out_proto)
                   /\ caffemodel' = Some(r.out_caffemodel)
                   /\ pc' = "fix_sed"
                   /\ exc' = exc
              ELSE /\ UNCHANGED <<proto, caffemodel>>
                   /\ Raise("Exception: trans_net")
    /\ UNCHANGED <<args, self, cargs, model>>
    /\ UNCHANGED <<lr, obj, result>>

\* lines 90-99: the sed pipeline writes <prototxt>.tofix.prototxt, which is then
\* rewritten with the data layer in front.
CaffeFixSed(rc) ==
    /\ pc = "fix_sed"
    /\ LET input_prototxt == InputPrototxt(proto[1]) IN
        /\ calls' = Append(calls,
               Entry("sed", CheckCall(rc), rc,
                     [src |-> proto[1], dst |-> input_prototxt,
                      input_size |-> self.input_size], <<>>))
        /\ IF CheckCall(rc) = "ok"
           THEN pc' = "fix_deephi" /\ exc' = exc
           ELSE Raise(CheckCall(rc))
    /\ UNCHANGED <<args, self, cargs, model, proto, caffemodel>>
    /\ UNCHANGED <<lr, obj, result>>

\* lines 102-112: deephi_fix fix
CaffeFixDeephi(rc) ==
    /\ pc = "fix_deephi"
    /\ LET c == cargs[1] IN
        /\ calls' = Append(calls,
               Entry("deephi_fix", CheckCall(rc), rc,
                     [calib_iter |-> self.calib_iter, gpu |-> self.gpu,
                      model |-> InputPrototxt(proto[1]), weights |-> caffemodel[1],
                      output_dir |-> FixOutDir(c.result_dir)], <<>>))
        /\ IF CheckCall(rc) = "ok"
           THEN pc' = "fix_copy" /\ exc' = exc
           ELSE Raise(CheckCall(rc))
    /\ UNCHANGED <<args, self, cargs, model, proto, caffemodel>>
    /\ UNCHANGED <<lr, obj, result>>

\* lines 115-118: shutil.copy(deploy.prototxt, deploy_dnnc.prototxt)
CaffeFixCopy(copied) ==
    /\ pc = "fix_copy"
    /\ LET out == FixOutDir(cargs[1].result_dir) IN
        /\ calls' = Append(calls,
               Entry("copy", IF copied THEN "ok" ELSE "Exception", 0,
                     [src |-> PathJoin(out, "deploy.prototxt"),
                      dst |-> CaffeFixReturn(out).proto], <<>>))
        /\ IF copied
           THEN pc' = "fix_modify" /\ exc' = exc
           ELSE Raise("Exception: shutil.copy")
    /\ UNCHANGED <<args, self, cargs, model, proto, caffemodel>>
    /\ UNCHANGED <<lr, obj, result>>

\* lines 120-125 and 160-162: modify_for_dnnc.py, then _caffe_fix returns and
\* compile rebinds proto and caffemodel.
CaffeFixModify(rc) ==
    /\ pc = "fix_modify"
    /\ LET r == CaffeFixReturn(FixOutDir(cargs[1].result_dir)) IN
        /\ calls' = Append(calls,
               Entry("modify_for_dnnc", CheckCall(rc), rc, [file |-> r.proto],
                     IF CheckCall(rc) = "ok" THEN <<r.proto, r.caffemodel>> ELSE <<>>))
        /\ IF CheckCall(rc) = "ok"
           THEN /\ proto' = Some(r.proto)
                /\ caffemodel' = Some(r.caffemodel)
                /\ pc' = "dnnc"
                /\ exc' = exc
           ELSE /\ UNCHANGED <<proto, caffemodel>>
                /\ Raise(CheckCall(rc))
    /\ UNCHANGED <<args, self, cargs, model>>
    /\ UNCHANGED <<lr, obj, result>>

\* lines 165-168 and 127-143: dnnc
Dnnc(rc) ==
    /\ pc = "dnnc"
    /\ LET c == cargs[1]
           r == CompileCallDnnc(PyStr(c.compile_name), proto[1], caffemodel[1],
                                DnncOutDir(c.result_dir, self.mode), self.dcf,
                                self.mode, self.debug_output)
       IN  /\ calls' = Append(calls,
                  Entry("dnnc", CheckCall(rc), rc, r.argv,
                        IF CheckCall(rc) = "ok" THEN <<r.output_elf>> ELSE <<>>))
           /\ IF CheckCall(rc) = "ok"
              THEN pc' = "done" /\ exc' = exc
              ELSE Raise(CheckCall(rc))
    /\ UNCHANGED <<args, self, cargs, model, proto, caffemodel>>
    /\ UNCHANGED <<lr, obj, result>>

NextCompile ==
    \/ Construct
    \/ \E n \in CompileNames, cfg \in NetCfgs, d \in ResultDirs, built \in BOOLEAN :
         CompileBegin(n, cfg, d, built)
    \/ \E converted \in BOOLEAN : PytorchToCaffe(converted)
    \/ \E rc \in 0..MaxRc : CaffeFixSed(rc)
    \/ \E rc \in 0..MaxRc : CaffeFixDeephi(rc)
    \/ \E copied \in BOOLEAN : CaffeFixCopy(copied)
    \/ \E rc \in 0..MaxRc : CaffeFixModify(rc)
    \/ \E rc \in 0..MaxRc : Dnnc(rc)

SpecCompile == InitCompile /\ [][NextCompile]_vars

(***************************************************************************)
(* Properties of DPUCompiler, checked under SpecCompile.                   *)
(***************************************************************************)
ToolOrder == <<"trans_net", "sed", "deephi_fix", "copy", "modify_for_dnnc", "dnnc">>

CallsOf(tool) == {i \in 1..Len(calls) : calls[i].tool = tool}

BothGiven == args.dcf # None /\ args.input_size # None

\* C1: compile runs pytorch_to_caffe, then the deephi_fix stage (sed, deephi_fix,
\* copy, modify_for_dnnc), then dnnc, each step at most once and in this order,
\* and all of them once compile has returned; the fix stage reads the two paths
\* that the conversion returned, dnnc reads the two paths that the fix stage
\* returned, which are fix/deploy_dnnc.prototxt and fix/deploy.caffemodel; dnnc
\* is started only after deephi_fix and modify_for_dnnc have ended successfully.
C1_StagesInOrder ==
    /\ Len(calls) <= Len(ToolOrder)
    /\ \A i \in 1..Len(calls) : calls[i].tool = ToolOrder[i]
    /\ pc = "done" => Len(calls) = Len(ToolOrder)
    /\ \A i \in CallsOf("sed") : calls[i].argv.src = calls[1].ret[1]
    /\ \A i \in CallsOf("deephi_fix") :
         /\ calls[i].argv.model = calls[1].ret[1] \o ".tofix.prototxt"
         /\ calls[i].argv.weights = calls[1].ret[2]
    /\ \A i \in CallsOf("dnnc") :
         /\ calls[3].outcome = "ok" /\ calls[5].outcome = "ok"
         /\ calls[i].argv.prototxt = calls[5].ret[1]
         /\ calls[i].argv.caffemodel = calls[5].ret[2]
         /\ calls[i].argv.prototxt = cargs[1].result_dir \o "/fix/deploy_dnnc.prototxt"
         /\ calls[i].argv.caffemodel = cargs[1].result_dir \o "/fix/deploy.caffemodel"

\* C1 witness: compile returned after dnnc ran on the fix stage's outputs.
C1_Witness ==
    /\ pc = "done"
    /\ Len(calls) = 6
    /\ calls[6].tool = "dnnc"
    /\ calls[6].argv.prototxt = "out/fix/deploy_dnnc.prototxt"

\* C2: an external step (sed, deephi_fix, modify_for_dnnc.py, dnnc) that exits
\* with a non-zero status is the last step invoked: CalledProcessError leaves
\* compile and no later step runs; in particular no copy and no dnnc follows a
\* failed deephi_fix.
C2_FailStop ==
    /\ \A i \in 1..Len(calls) :
         calls[i].rc # 0 =>
            /\ i = Len(calls)
            /\ pc = "raised"
            /\ exc = "CalledProcessError"
    /\ (\E i \in CallsOf("deephi_fix") : calls[i].rc # 0) =>
            CallsOf("copy") = {} /\ CallsOf("dnnc") = {}

\* C2 witness: deephi_fix failed and the error left compile.
C2_Witness ==
    /\ pc = "raised"
    /\ Len(calls) = 3
    /\ calls[3].tool = "deephi_fix"
    /\ calls[3].rc # 0

\* C3: with dcf=None the constructor raises the ConfigException of the dcf
\* check, also when input_size is None too; with only input_size=None it raises
\* the ConfigException of the input_size check; in both cases no attribute is
\* stored.  With both given the attributes hold the arguments, and every step of
\* compile is run with exactly these values.
C3_ConstructorChecks ==
    pc # "new" =>
      /\ args.dcf = None =>
            /\ pc = "ctor_raised"
            /\ exc = "ConfigException: must specificy dcf file"
            /\ DOMAIN self = {}
      /\ (args.dcf # None /\ args.input_size = None) =>
            /\ pc = "ctor_raised"
            /\ exc = "ConfigException: must specificy input_size"
            /\ DOMAIN self = {}
      /\ BothGiven =>
            /\ pc # "ctor_raised"
            /\ self.dcf = args.dcf[1]
            /\ self.mode = args.mode
            /\ self.calib_iter = args.calib_iter
            /\ self.gpu = args.gpu
            /\ self.input_size = args.input_size[1]
            /\ model # None => model[1].repr =
                 "final_model(" \o cargs[1].net_cfg \o ")@cuda:" \o IntStr(args.gpu)
            /\ \A i \in CallsOf("trans_net") :
                 calls[i].argv.input_size = args.input_size[1]
            /\ \A i \in CallsOf("sed") :
                 calls[i].argv.input_size = args.input_size[1]
            /\ \A i \in CallsOf("deephi_fix") :
                 /\ calls[i].argv.gpu = args.gpu
                 /\ calls[i].argv.calib_iter = args.calib_iter
            /\ \A i \in CallsOf("dnnc") :
                 /\ calls[i].argv.dcf = args.dcf[1]
                 /\ calls[i].argv.mode = args.mode
                 /\ calls[i].argv.output_dir =
                      cargs[1].result_dir \o "/dnnc_" \o args.mode

\* C3 witness: a compiler built with non-default arguments ran dnnc.
C3_Witness ==
    /\ BothGiven
    /\ args.mode = "normal"
    /\ args.gpu = 1
    /\ args.calib_iter = 1
    /\ CallsOf("dnnc") # {}

\* C7: trans_net is given the final model as the model to convert and
\* compile_name as the name, the conversion returns
\* result_dir/pytorch_to_caffe/<compile_name>.prototxt and .caffemodel, and dnnc
\* is given compile_name as its net name.
C7_ModelAndNameToConverter ==
    /\ \A i \in CallsOf("trans_net") :
         /\ calls[i].argv.model.type = "final_model"
         /\ calls[i].argv.name = PyStr(cargs[1].compile_name)
         /\ calls[i].outcome = "ok" =>
              calls[i].ret =
                 << cargs[1].result_dir \o "/pytorch_to_caffe/"
                      \o cargs[1].compile_name \o ".prototxt",
                    cargs[1].result_dir \o "/pytorch_to_caffe/"
                      \o cargs[1].compile_name \o ".caffemodel" >>
    /\ \A i \in CallsOf("dnnc") :
         /\ calls[i].argv.net_name = cargs[1].compile_name
         /\ calls[i].outcome = "ok" =>
              calls[i].ret = << cargs[1].result_dir \o "/dnnc_" \o args.mode
                                  \o "/dpu_" \o cargs[1].compile_name \o ".elf" >>

(***************************************************************************)
(* Exact rational numbers n/d, d > 0, in lowest terms.  They stand for the *)
(* python floats of the plugin; the model computes without rounding.       *)
(***************************************************************************)
RECURSIVE Gcd(_, _)
Gcd(a, b) == IF b = 0 THEN a ELSE Gcd(b, a % b)

Abs(x) == IF x < 0 THEN -x ELSE x

Rat(n, d) ==
    LET g == Gcd(Abs(n), Abs(d))
        sgn == IF d < 0 THEN -1 ELSE 1
    IN  [n |-> sgn * (n \div g), d |-> sgn * (d \div g)]

RInt(k) == [n |-> k, d |-> 1]

RAdd(a, b) ==
    LET l == (a.d \div Gcd(a.d, b.d)) * b.d
    IN  Rat(a.n * (l \div a.d) + b.n * (l \div b.d), l)

RNeg(a) == [n |-> -a.n, d |-> a.d]
RSub(a, b) == RAdd(a, RNeg(b))

RMul(a, b) ==
    LET x == Rat(a.n, b.d)
        y == Rat(b.n, a.d)
    IN  [n |-> x.n * y.n, d |-> x.d * y.d]

\* a / b, b # 0
RDiv(a, b) == RMul(a, Rat(b.d, b.n))

\* a <= b
RLeq(a, b) == RSub(a, b).n <= 0

\* int(x) of a non-negative x
RFloor(a) == a.n \div a.d

\* [x * c for x in xs]
Scaled(xs, c) == [i \in DOMAIN xs |-> RMul(xs[i], c)]

(***************************************************************************)
(* CosineDecayLR.  The record s holds the scheduler's attributes, ret the  *)
(* list get_lr returned and status whether get_lr raised.                  *)
(***************************************************************************)
MaxEpoch == 12
MaxTmax == 3
MaxWarmup == 3

TMuls == {Rat(1, 2), RInt(1), Rat(3, 2), RInt(2)}
LrMuls == {Rat(1, 2), Rat(3, 4)}
Alphas == {Rat(1, 4)}
BaseLrs == {<<RInt(1)>>, <<RInt(1), Rat(1, 2)>>}

\* line 283 and line 303: [b_lr * alpha for b_lr in base_lrs]
MinLrs(base_lrs, alpha) == Scaled(base_lrs, alpha)

\* lines 284-285 and 305-306: [1.0 * (b - m) / warmup_step for (b, m) in zip(...)]
RiseLrs(base_lrs, min_lrs, warmup_step) ==
    [i \in DOMAIN base_lrs |->
        RDiv(RSub(base_lrs[i], min_lrs[i]), RInt(warmup_step))]

\* lines 291-293: the warmup branch's list
WarmupLrs(s, T_cur) ==
    [i \in DOMAIN s.base_lrs |->
        [kind |-> "warmup",
         val |-> RAdd(s.min_lrs[i], RMul(s.rise_lrs[i], RInt(T_cur))),
         cos_arg |-> <<>>]]

\* lines 298-300: alpha + (base_lr - alpha) * (1 + cos(pi * last_epoch / T_max)) / 2.
\* The cosine is kept as a term: val is base_lr and cos_arg is last_epoch / T_max.
CosineLrs(s) ==
    [i \in DOMAIN s.base_lrs |->
        [kind |-> "cosine", val |-> s.base_lrs[i],
         cos_arg |-> <<s.last_epoch, s.T_max>>]]

\* lines 301-308: the restart
Restart(s) ==
    LET min_lrs == MinLrs(s.base_lrs, s.alpha)
        base_lrs == Scaled(s.base_lrs, s.lr_mul)
    IN  [s EXCEPT !.last_restart_step = s.last_epoch,
                  !.min_lrs = min_lrs,
                  !.base_lrs = base_lrs,
                  !.rise_lrs = RiseLrs(base_lrs, min_lrs, s.warmup_step),
                  !.T_max = RFloor(RMul(RInt(s.T_max), s.t_mul)),
                  !.flag = FALSE]

\* get_lr, lines 287-309
GetLr(s) ==
    LET T_cur == s.last_epoch - s.last_restart_step
        warm == T_cur <= s.warmup_step /\ ~s.flag
        s1 == IF warm
              THEN IF T_cur = s.warmup_step
                   THEN [s EXCEPT !.ret = WarmupLrs(s, T_cur),
                                  !.last_restart_step = s.last_epoch,
                                  !.flag = TRUE]
                   ELSE [s EXCEPT !.ret = WarmupLrs(s, T_cur)]
              ELSE [s EXCEPT !.ret = CosineLrs(s)]
    IN  IF T_cur < 0
        THEN [s EXCEPT !.status = "AssertionError"]
        ELSE IF ~warm /\ s.T_max = 0
        THEN [s EXCEPT !.status = "ZeroDivisionError"]
        ELSE IF T_cur = s.T_max THEN Restart(s1) ELSE s1

\* CosineDecayLR(optimizer, T_max, alpha, t_mul, lr_mul, warmup_step=warmup_step):
\* lines 273-285; _LRScheduler.__init__ has taken the step to epoch 0.
CosineDecayLRInit(T_max, alpha, t_mul, lr_mul, warmup_step, base_lrs) ==
    LET s0 == [T_max |-> T_max, alpha |-> alpha, t_mul |-> t_mul, lr_mul |-> lr_mul,
               warmup_step |-> warmup_step, last_restart_step |-> 0, flag |-> TRUE,
               last_epoch |-> 0, base_lrs |-> base_lrs,
               min_lrs |-> <<>>, rise_lrs |-> <<>>, ret |-> <<>>, status |-> "ok",
               phase |-> "constructed"]
        s1 == GetLr(s0)
        min_lrs == MinLrs(s1.base_lrs, alpha)
    IN  [s1 EXCEPT !.min_lrs = min_lrs,
                   !.rise_lrs = RiseLrs(s1.base_lrs, min_lrs, warmup_step)]

InitLR ==
    /\ \E T_max \in 1..MaxTmax, alpha \in Alphas, t_mul \in TMuls, lr_mul \in LrMuls,
          warmup_step \in 1..MaxWarmup, base_lrs \in BaseLrs :
         lr = CosineDecayLRInit(T_max, alpha, t_mul, lr_mul, warmup_step, base_lrs)
    /\ args = None /\ self = NoFields /\ pc = "idle" /\ exc = "none"
    /\ cargs = None /\ model = None /\ proto = None /\ caffemodel = None
    /\ calls = <<>>
    /\ obj = ObjIdle
    /\ result = ResultIdle

\* scheduler.step(): the epoch advances and get_lr computes the new rates.
Step ==
    /\ lr.status = "ok"
    /\ lr.last_epoch < MaxEpoch
    /\ lr' = GetLr([lr EXCEPT !.last_epoch = @ + 1])
    /\ UNCHANGED <<dpuVars, obj, result>>

NextLR == Step

SpecLR == InitLR /\ [][NextLR]_vars

(***************************************************************************)
(* Properties of CosineDecayLR, checked under SpecLR.                      *)
(***************************************************************************)
\* One call of get_lr that did not raise.
LRStepped == lr.status = "ok" /\ lr'.status = "ok" /\ lr'.last_epoch = lr.last_epoch + 1

\* The call restarted the schedule: lines 301-308 ran (lr_mul # 1 changes base_lrs).
Restarted == lr'.base_lrs # lr.base_lrs

\* What a call made in the warmup phase (flag is False) does, by the claim.
WarmupStepAsClaimed ==
    LET T_cur == lr'.last_epoch - lr.last_restart_step IN
    /\ T_cur <= lr.warmup_step
    /\ \A g \in DOMAIN lr'.ret : lr'.ret[g].kind = "warmup"
    /\ T_cur < lr.warmup_step =>
          /\ ~Restarted
          /\ ~lr'.flag
          /\ lr'.last_restart_step = lr.last_restart_step
          /\ lr'.T_max = lr.T_max
    /\ T_cur = lr.warmup_step =>
          /\ ~Restarted
          /\ lr'.flag
          /\ \A g \in DOMAIN lr'.ret : lr'.ret[g].val = lr.base_lrs[g]

\* What a restart does, by the claim: the warmup phase starts at this step.
RestartAsClaimed ==
    Restarted =>
       /\ lr'.last_epoch - lr.last_restart_step = lr.T_max
       /\ ~lr'.flag
       /\ lr'.last_restart_step = lr'.last_epoch

\* C4: after a restart the scheduler stays in the warmup phase for exactly
\* warmup_step steps without a further restart, and the step with
\* T_cur = warmup_step returns the new base learning rates and sets flag.
C4_WarmupAfterRestart ==
    [][LRStepped => /\ RestartAsClaimed
                    /\ ~lr.flag => WarmupStepAsClaimed]_vars

\* The same holds of every warmup phase entered with T_max > warmup_step: the
\* restart test of line 301 then cannot succeed before the warmup has ended.
WarmupCompletesWhenTmaxExceedsWarmup ==
    [][LRStepped => /\ RestartAsClaimed
                    /\ (~lr.flag /\ lr.T_max > lr.warmup_step) => WarmupStepAsClaimed]_vars

\* A warmup phase that has just ended as described: the base learning rates are
\* returned and flag is set, with T_max > warmup_step > 1.
WarmupCompleted ==
    /\ lr.phase # "idle"
    /\ lr.status = "ok"
    /\ lr.flag
    /\ lr.warmup_step > 1
    /\ lr.T_max > lr.warmup_step
    /\ lr.last_restart_step = lr.last_epoch
    /\ \A g \in DOMAIN lr.ret :
          lr.ret[g].kind = "warmup" /\ lr.ret[g].val = lr.base_lrs[g]

(***************************************************************************)
(* LatencyObjective.  Latencies and accuracies are exact rationals.        *)
(* Python indexes from 0 and the model from 1: layer i_layer of the code   *)
(* is layer i_layer + 1 here, and so are the columns of a table row.       *)
(***************************************************************************)
MaxRows == 2
MaxCells == 2

\* The rows a latency file may hold: one number per primitive of the layer.
LutRows == {<<1, 2>>, <<2, 1>>, <<-1, 1>>}
LambArgs == {None, Some(-1), Some(2)}
AccPercents == {25, 100}

\* The search space: each layer has its own cell group, and every group shares
\* the same list of primitives (ss.cell_layout, ss.cell_shared_primitives).
Primitives == <<"Resblock_0", "VGGblock_0">>
SearchSpace ==
    [cell_layout |-> [i \in 1..(MaxCells + 1) |-> i],
     cell_shared_primitives |-> [g \in 1..(MaxCells + 1) |-> Primitives]]

RECURSIVE SumSeq(_)
SumSeq(xs) == IF xs = <<>> THEN 0 ELSE Head(xs) + SumSeq(Tail(xs))

MinOf(row) == CHOOSE x \in {row[i] : i \in DOMAIN row} : \A j \in DOMAIN row : x <= row[j]
MaxOf(row) == CHOOSE x \in {row[i] : i \in DOMAIN row} : \A j \in DOMAIN row : x >= row[j]

\* line 328: sum([min(lat) for lat in self.latency_lut])
MinLat_FirstColumn(lut) == SumSeq([i \in DOMAIN lut |-> lut[i][1]])

MinLat(lut) == SumSeq([i \in DOMAIN lut |-> MinOf(lut[i])])

\* line 329: sum([max(lat) for lat in self.latency_lut])
MaxLat(lut) == SumSeq([i \in DOMAIN lut |-> MaxOf(lut[i])])

\* LatencyObjective(search_space, lamb=lamb, latency_file=...), lines 319-329
LatencyObjectiveInit(lut, lamb) ==
    [phase |-> "constructed", latency_lut |-> lut, lamb |-> lamb,
     min_lat |-> MinLat(lut), max_lat |-> MaxLat(lut)]

\* prims.index(prim): the first position of prim, 0 when it is absent (ValueError)
IndexOf(prims, prim) ==
    IF \E i \in DOMAIN prims : prims[i] = prim
    THEN CHOOSE i \in DOMAIN prims : prims[i] = prim /\ \A j \in 1..(i - 1) : prims[j] # prim
    ELSE 0

\* lines 346-347 and 367-368: genotypes[:len(genotypes) // 2]
PrimTypes(genotypes) == SubSeq(genotypes, 1, Len(genotypes) \div 2)

\* lines 349-351 and 370-372: the table entry of the primitive chosen for layer i
\* of the discrete candidate, or the exception the look-up raises.
LayerEntry(lut, genotypes, i) ==
    LET prim == PrimTypes(genotypes)[i][1][1]
        prims == SearchSpace.cell_shared_primitives[SearchSpace.cell_layout[i]]
        k == IndexOf(prims, prim)
    IN  IF k = 0 THEN [err |-> "ValueError", val |-> 0]
        ELSE IF i > Len(lut) \/ k > Len(lut[i]) THEN [err |-> "IndexError", val |-> 0]
        ELSE [err |-> "none", val |-> lut[i][k]]

\* The loop over the layers, lines 348-351 and 369-372: the sum, or the first
\* exception.
DiscreteLatency(lut, genotypes) ==
    LET n == Len(PrimTypes(genotypes))
        e == [i \in 1..n |-> LayerEntry(lut, genotypes, i)]
        bad == {i \in 1..n : e[i].err # "none"}
    IN  IF bad # {}
        THEN [err |-> e[CHOOSE i \in bad : \A j \in bad : i <= j].err, val |-> RInt(0)]
        ELSE [err |-> "none", val |-> RInt(SumSeq([i \in 1..n |-> e[i].val]))]

\* lines 354-357: (arch[0] * Tensor(lut[i])).sum(), divided by the number of rows
\* of a 2-dimensional arch[0].  A tensor is its list of rows; torch broadcasts
\* a dimension of size 1 and refuses any other mismatch.
RowDot(w, row) ==
    LET n == IF Len(w) > Len(row) THEN Len(w) ELSE Len(row)
    IN  SumSeq([j \in 1..n |-> (IF Len(w) = 1 THEN w[1] ELSE w[j])
                               * (IF Len(row) = 1 THEN row[1] ELSE row[j])])

ArchLayerLatency(lut, arch, i) ==
    LET t == arch[i] IN
    IF i > Len(lut) THEN [err |-> "IndexError", val |-> RInt(0)]
    ELSE IF \E r \in DOMAIN t.rows :
              Len(t.rows[r]) # Len(lut[i]) /\ Len(t.rows[r]) # 1 /\ Len(lut[i]) # 1
    THEN [err |-> "RuntimeError", val |-> RInt(0)]
    ELSE LET total == SumSeq([r \in DOMAIN t.rows |-> RowDot(t.rows[r], lut[i])])
         IN  [err |-> "none",
              val |-> IF t.ndim = 2 THEN Rat(total, Len(t.rows)) ELSE RInt(total)]

RECURSIVE RSum(_)
RSum(xs) == IF xs = <<>> THEN RInt(0) ELSE RAdd(Head(xs), RSum(Tail(xs)))

ArchLatency(lut, arch) ==
    LET e == [i \in DOMAIN arch |-> ArchLayerLatency(lut, arch, i)]
        bad == {i \in DOMAIN arch : e[i].err # "none"}
    IN  IF bad # {}
        THEN [err |-> e[CHOOSE i \in bad : \A j \in bad : i <= j].err, val |-> RInt(0)]
        ELSE [err |-> "none", val |-> RSum([i \in DOMAIN arch |-> e[i].val])]

\* get_perfs, lines 340-359: [acc, total_latency], or the exception raised
GetPerfsValue(o, cand, acc) ==
    LET t == IF cand.rollout_type = "discrete"
             THEN DiscreteLatency(o.latency_lut, cand.genotypes)
             ELSE ArchLatency(o.latency_lut, cand.arch)
    IN  IF t.err # "none"
        THEN [kind |-> "raised", err |-> t.err]
        ELSE [kind |-> "perfs", acc |-> acc, total_latency |-> t.val]

\* get_reward, lines 361-375
GetRewardValue_MinLat(o, cand, acc) ==
    IF o.lamb = None
    THEN [kind |-> "reward", reward |-> acc]
    ELSE LET t == DiscreteLatency(o.latency_lut, cand.genotypes) IN
         IF t.err # "none" THEN [kind |-> "raised", err |-> t.err]
         ELSE IF t.val.n = 0 \/ o.min_lat = 0
         THEN [kind |-> "raised", err |-> "ZeroDivisionError"]
         ELSE [kind |-> "reward",
               reward |-> RAdd(acc, RMul(RInt(o.lamb[1]),
                              RSub(RDiv(RInt(1), t.val), RDiv(RInt(1), RInt(o.min_lat)))))]

GetRewardValue(o, cand, acc) ==
    IF o.lamb = None
    THEN [kind |-> "reward", reward |-> acc]
    ELSE LET t == DiscreteLatency(o.latency_lut, cand.genotypes) IN
         IF t.err # "none" THEN [kind |-> "raised", err |-> t.err]
         ELSE IF t.val.n = 0 \/ o.max_lat = 0
         THEN [kind |-> "raised", err |-> "ZeroDivisionError"]
         ELSE [kind |-> "reward",
               reward |-> RAdd(acc, RMul(RInt(o.lamb[1]),
                              RSub(RDiv(RInt(1), t.val), RDiv(RInt(1), RInt(o.max_lat)))))]

(***************************************************************************)
(* The inputs: latency tables, candidate networks, accuracies.             *)
(***************************************************************************)
SeqsUpTo(S, n) == UNION {[1..k -> S] : k \in 0..n}

Luts == SeqsUpTo(LutRows, MaxRows)

\* genotypes of a discrete candidate with n cells: the primitive of each cell,
\* then the concat nodes of each cell.
Genotypes(n) ==
    {[i \in 1..(2 * n) |-> IF i <= n THEN <<<<ps[i], 0, 1>>>> ELSE <<<<"concat", 1, 1>>>>] :
        ps \in [1..n -> {Primitives[j] : j \in DOMAIN Primitives}]}

ArchTensors ==
    {[ndim |-> 1, rows |-> <<<<1, 0>>>>],
     [ndim |-> 1, rows |-> <<<<1>>>>],
     [ndim |-> 2, rows |-> <<<<1, 0>>, <<0, 1>>>>]}

DiscreteCands ==
    {[rollout_type |-> "discrete", genotypes |-> g, arch |-> <<>>] :
        g \in UNION {Genotypes(n) : n \in 0..MaxCells}}

DifferentiableCands ==
    {[rollout_type |-> "differentiable", genotypes |-> <<>>, arch |-> [i \in 1..n |-> t]] :
        n \in 0..MaxCells, t \in ArchTensors}

InitLat ==
    /\ \E lut \in Luts, lamb \in LambArgs : obj = LatencyObjectiveInit(lut, lamb)
    /\ result = ResultIdle
    /\ args = None /\ self = NoFields /\ pc = "idle" /\ exc = "none"
    /\ cargs = None /\ model = None /\ proto = None /\ caffemodel = None
    /\ calls = <<>>
    /\ lr = LRIdle

\* objective.get_perfs(inputs, outputs, targets, cand_net)
GetPerfs(cand, pct) ==
    /\ result' = [kind |-> "returned", fn |-> "get_perfs", cand |-> cand,
                  acc |-> Rat(pct, 100), value |-> GetPerfsValue(obj, cand, Rat(pct, 100))]
    /\ UNCHANGED <<dpuVars, lr, obj>>

\* objective.get_reward(inputs, outputs, targets, cand_net)
GetReward(cand, pct) ==
    /\ result' = [kind |-> "returned", fn |-> "get_reward", cand |-> cand,
                  acc |-> Rat(pct, 100), value |-> GetRewardValue(obj, cand, Rat(pct, 100))]
    /\ UNCHANGED <<dpuVars, lr, obj>>

NextLat ==
    \/ \E cand \in DiscreteCands \cup DifferentiableCands, pct \in AccPercents :
         GetPerfs(cand, pct)
    \/ \E cand \in DiscreteCands, pct \in AccPercents : GetReward(cand, pct)

SpecLat == InitLat /\ [][NextLat]_vars

(***************************************************************************)
(* Properties of LatencyObjective, checked under SpecLat.                  *)
(***************************************************************************)
\* The last call was get_perfs on a discrete candidate and returned.
DiscretePerfs ==
    /\ result.kind = "returned"
    /\ result.fn = "get_perfs"
    /\ result.cand.rollout_type = "discrete"
    /\ result.value.kind = "perfs"

LatencyWithinBounds ==
    /\ RLeq(RInt(obj.min_lat), result.value.total_latency)
    /\ RLeq(result.value.total_latency, RInt(obj.max_lat))

NumCellsOf(cand) == Len(cand.genotypes) \div 2

\* C5 as stated: the total latency get_perfs reports for any discrete candidate
\* lies between _min_lat and _max_lat.
C5_LatencyBounds_Original == DiscretePerfs => LatencyWithinBounds

\* C5 amended: the total latency get_perfs reports for a discrete candidate with
\* as many cells as the latency table has rows lies between _min_lat and _max_lat.
C5_LatencyBounds ==
    (DiscretePerfs /\ NumCellsOf(result.cand) = Len(obj.latency_lut))
        => LatencyWithinBounds

\* C5 witness: a two-cell candidate on a two-row table, strictly inside the bounds.
C5_Witness ==
    /\ DiscretePerfs
    /\ NumCellsOf(result.cand) = 2
    /\ Len(obj.latency_lut) = 2
    /\ RInt(obj.min_lat) # result.value.total_latency
    /\ RInt(obj.max_lat) # result.value.total_latency
    /\ LatencyWithinBounds

\* The call r was get_reward and returned a reward.
RewardOf(r) == r.kind = "returned" /\ r.fn = "get_reward" /\ r.value.kind = "reward"

\* The candidate's summed look-up-table latency.
SummedLatency(r) == DiscreteLatency(obj.latency_lut, r.cand.genotypes).val

PositiveLatencies ==
    \A i \in DOMAIN obj.latency_lut : \A j \in DOMAIN obj.latency_lut[i] :
        obj.latency_lut[i][j] > 0

NonNegativeLamb == obj.lamb # None /\ obj.lamb[1] >= 0

C6_RewardValue ==
    /\ (result.kind = "returned" /\ result.fn = "get_reward" /\ obj.lamb = None) =>
          /\ result.value.kind = "reward"
          /\ result.value.reward = result.acc
    /\ (RewardOf(result) /\ obj.lamb # None) =>
          /\ result.value.reward =
               RAdd(result.acc,
                    RMul(RInt(obj.lamb[1]),
                         RSub(Rat(SummedLatency(result).d, SummedLatency(result).n),
                              Rat(1, obj.max_lat))))
          /\ (NonNegativeLamb /\ PositiveLatencies) =>
               /\ RLeq(result.acc, result.value.reward)
               /\ SummedLatency(result) = RInt(obj.max_lat) =>
                    result.value.reward = result.acc

C6_RewardMonotone ==
    (/\ RewardOf(result) /\ RewardOf(result')
     /\ NonNegativeLamb /\ PositiveLatencies
     /\ result'.acc = result.acc
     /\ RLeq(SummedLatency(result), SummedLatency(result')))
        => RLeq(result'.value.reward, result.value.reward)

\* C6: get_reward returns the accuracy when lamb is None and otherwise
\* acc + lamb * (1/L - 1/_max_lat), L the candidate's summed table latency; with
\* lamb >= 0 and a table of positive latencies the reward is at least the
\* accuracy, equals it when L = _max_lat, and of two rewards at the same accuracy
\* the one of the larger L is not the larger one.
C6_Reward == []C6_RewardValue /\ [][C6_RewardMonotone]_vars

\* C6 witness: lamb > 0, positive latencies, a candidate faster than the slowest
\* one, rewarded above its accuracy.
C6_Witness ==
    /\ RewardOf(result)
    /\ NonNegativeLamb /\ obj.lamb[1] > 0
    /\ PositiveLatencies
    /\ Len(obj.latency_lut) = 2
    /\ SummedLatency(result) # RInt(obj.max_lat)
    /\ result.value.reward # result.acc
    /\ RLeq(result.acc, result.value.reward)

====
